---- MODULE Spec2Model ----
(***************************************************************************)
(* Session core of the FastAPI boilerplate: refresh-token store with       *)
(* family-based rotation, login / refresh / logout handlers, the Redis     *)
(* cache helpers, the access-token blacklist and the permission cache.     *)
(*                                                                         *)
(* Requests are served concurrently.  Every repository method that ends in *)
(* `await self.db.commit()` is one database transaction and therefore one  *)
(* step of the request that calls it; every cache helper is one Redis      *)
(* command and one step.  Time is wall-clock seconds.                      *)
(***************************************************************************)
EXTENDS Integers, Sequences, FiniteSets, TLC

VARIABLES
    tokens,     \* refresh_token table: sequence of rows, row id = index
    access,     \* access tokens issued and not yet expired (stateless JWTs)
    cache,      \* Redis: function from present keys to [val, exp]
    now,        \* wall clock, seconds
    pc,         \* per request slot: position inside its handler
    loc,        \* per request slot: the handler's local variables
    resp,       \* the response sent by the step just taken, if it sent one
    loggedOut,  \* history: access tokens a finished logout received as Bearer
    collapsed,  \* history: families left all revoked by reuse detection or logout
    nreq,       \* number of requests received so far
    users,      \* user table: function from user id to row
    otpLog,     \* history: per (email, purpose), the OTP calls made so far
    roles,      \* role table with its role_permission rows: role id to row
    permissions,\* permission table: the codes that exist
    audit       \* audit_logs collection: the entries written so far

vars == <<tokens, access, cache, now, pc, loc, resp, loggedOut, collapsed, nreq,
          users, otpLog, roles, permissions, audit>>

----------------------------------------------------------------------------
(* Bounds of the model *)

MaxRequests == 4
MaxTicks == 2
MaxOtpRequests == 7
MaxOtpTicks == 5
MaxVerifyRequests == 5
MaxVerifyTicks == 2

\* Two users, two requests in flight at a time.
Users == {"u1", "u2"}
Procs == {1, 2}

(* Program constants *)

ACCESS_TOKEN_EXPIRE_MINUTES == 15
REFRESH_TOKEN_MAX_AGE == 7 * 24 * 60 * 60
DEFAULT_CACHE_EXPIRE == 300

AccessLifetime == ACCESS_TOKEN_EXPIRE_MINUTES * 60

\* OTP policy: 6-digit code kept 10 minutes, 3 attempts, 60-second cooldown,
\* 5 resends per hour, then a 24-hour lockout.
OTP_EXPIRY_SECONDS == 10 * 60
\* Mutant: one more attempt is allowed.
MAX_OTP_ATTEMPTS_more == 3 + 1
MAX_OTP_ATTEMPTS == 3
\* Mutant: the cooldown is half as long.
OTP_COOLDOWN_SECONDS_half == 60 \div 2
OTP_COOLDOWN_SECONDS == 60
MAX_OTP_RESENDS_PER_HOUR == 5
OTP_RESEND_WINDOW == 60 * 60
\* Mutant: the lock lasts no longer than the resend window.
OTP_LOCKOUT_SECONDS_hour == 60 * 60
OTP_LOCKOUT_SECONDS == 24 * 60 * 60

ShortTick == DEFAULT_CACHE_EXPIRE
LongTick == REFRESH_TOKEN_MAX_AGE

None == "None"
NoCookie == 0
ForgedRaw == MaxRequests + 1
RawTokens == 0..ForgedRaw

TicksTaken == (now \div LongTick) + ((now % LongTick) \div ShortTick)

----------------------------------------------------------------------------
(* Hashing and cache keys *)

\* AuthService stores sha256 of the raw refresh token, never the raw value.
HashToken(raw) == <<"sha256", raw>>

user_permissions_key(user_id) == <<"permissions:user", user_id>>

blacklist_key(at) == <<"blacklist:token", HashToken(at)>>

\* Mutant: the purpose is left out of the key.
otp_key_shared(email, otp_type) == <<"otp", email, "ANY">>

\* f"otp:{email}:{otp_type}"
otp_key(email, otp_type) == <<"otp", email, otp_type>>

\* f"rate_limit:{scope}:{identifier}"
rate_limit_key(identifier, scope) == <<"rate_limit", scope, identifier>>

OTPType == {"EMAIL_VERIFICATION", "PASSWORD_RESET"}

\* Scopes of the three rate-limit keys of one (email, purpose) pair.
cooldown_scope(otp_type) ==
    IF otp_type = "EMAIL_VERIFICATION" THEN "otp_cooldown:EMAIL_VERIFICATION"
                                       ELSE "otp_cooldown:PASSWORD_RESET"
resend_scope(otp_type) ==
    IF otp_type = "EMAIL_VERIFICATION" THEN "otp_resend:EMAIL_VERIFICATION"
                                       ELSE "otp_resend:PASSWORD_RESET"
lockout_scope(otp_type) ==
    IF otp_type = "EMAIL_VERIFICATION" THEN "otp_lockout:EMAIL_VERIFICATION"
                                       ELSE "otp_lockout:PASSWORD_RESET"

\* The stored form of a submitted or generated code.
hash_otp(code) == <<"sha256", code>>

----------------------------------------------------------------------------
(* Redis helpers (app/core/cache.py) *)

\* A key whose TTL has run out is gone from Redis.
Live(c, key) == key \in DOMAIN c /\ c[key].exp > now

\* redis GET, then `if value:` and json.loads
get_cache(key) ==
    IF Live(cache, key) /\ cache[key].val # "" THEN cache[key].val ELSE None

\* get_cache of a key that holds a JSON object: the text is never empty, and
\* json.loads gives the object back.
NoObj == [none |-> TRUE]
get_cache_obj(key) == IF Live(cache, key) THEN cache[key].val ELSE NoObj

\* redis TTL key: seconds left, -2 if the key does not exist
get_ttl(key) == IF Live(cache, key) THEN cache[key].exp - now ELSE 0 - 2

\* Mutant: SET ... NX, an existing key is left as it is.
set_cache_nx(c, key, value, expire) ==
    IF key \in DOMAIN c THEN c
    ELSE [k \in (DOMAIN c) \cup {key} |->
            IF k = key THEN [val |-> value, exp |-> now + expire] ELSE c[k]]

\* redis SET key value EX expire
set_cache(c, key, value, expire) ==
    [k \in (DOMAIN c) \cup {key} |->
        IF k = key THEN [val |-> value, exp |-> now + expire] ELSE c[k]]

\* Mutant: the DEL is never sent.
delete_cache_noop(c, key) == c

\* redis DEL key
delete_cache(c, key) == [k \in (DOMAIN c) \ {key} |-> c[k]]

----------------------------------------------------------------------------
(* RefreshTokenRepository (app/repositories/auth_repository.py) *)

TokenIds == 1..Len(tokens)

\* Mutant: the where clause is lost and the first row comes back.
get_by_token_hash_first(token_hash) == IF TokenIds # {} THEN 1 ELSE 0

\* select ... where token_hash == value; scalar_one_or_none
get_by_token_hash(token_hash) ==
    IF \E i \in TokenIds : tokens[i].token_hash = token_hash
    THEN CHOOSE i \in TokenIds : tokens[i].token_hash = token_hash
    ELSE 0

\* Mutant: the expiry comparison is reversed.
get_by_user_id_reversed(user_id) ==
    {i \in TokenIds : /\ tokens[i].user_id = user_id
                      /\ tokens[i].revoked = FALSE
                      /\ tokens[i].expires_at < now}

\* select where user_id == u and revoked == False and expires_at > utcnow()
get_by_user_id(user_id) ==
    {i \in TokenIds : /\ tokens[i].user_id = user_id
                      /\ tokens[i].revoked = FALSE
                      /\ tokens[i].expires_at > now}

\* Mutant: the flag is set on the object but never committed.
revoke_token_nocommit(toks, token_id) == toks

\* token = get(id); if token: token.revoked = True; commit
revoke_token(toks, token_id) ==
    IF token_id \in DOMAIN toks
    THEN [toks EXCEPT ![token_id].revoked = TRUE]
    ELSE toks

\* Mutant: the rows are changed in the session but never committed.
revoke_family_nocommit(toks, family_id) == toks

\* select where family_id == f; for each: revoked = True; commit
revoke_family(toks, family_id) ==
    [i \in DOMAIN toks |->
        IF toks[i].family_id = family_id
        THEN [toks[i] EXCEPT !.revoked = TRUE]
        ELSE toks[i]]

\* BaseRepository.create: db.add(obj); commit; refresh
create(toks, obj_in) == Append(toks, obj_in)

----------------------------------------------------------------------------
(* Token codec and the callers' blacklist check *)

\* Password hasher: salted and one-way; the salt is part of the hash.
hash_password(plain, salt) == <<"bcrypt", salt, plain>>

\* verify_password: hash the plaintext with the salt of the stored hash.
verify_password(plain, hashed) == hash_password(plain, hashed[2]) = hashed

\* issue_access_token: signed claims {sub, exp}; same claims, same token
create_access_token(user_id) == [sub |-> user_id, exp |-> now + AccessLifetime]

\* get_current_user: signature and expiry valid, and no blacklist entry
TokenAccepted(at) ==
    /\ at \in access
    /\ at.exp > now
    /\ get_cache(blacklist_key(at)) = None

----------------------------------------------------------------------------
Idle == [op |-> "none"]
NoResp == [op |-> "none"]

\* One address and both purposes take part in the OTP calls.
OtpEmails == {"a@x.io"}
Codes == {"111111", "222222"}
OtpPairs == OtpEmails \X OTPType

\* Addresses that take part in email verification: a verified customer's and
\* the one of the customer who has not verified.
VerifyEmails == {"a@x.io", "c@x.io"}
LogPairs == (OtpEmails \cup VerifyEmails) \X OTPType

\* History of one pair, kept by what was called and what was answered:
\* oks       times of the successful generates of the last hour, oldest first
\* locked_at time of the first generate refused for five in the hour, while
\*           less than a day old; -1 otherwise
\* code      the code last issued, for ten minutes from its issue
\* wrongs    verify calls since that issue that carried another code, up to
\*           the first call that carried that code
\* tried     verify calls since that issue that carried that code
\* compared  verify calls since that issue whose code was compared with the
\*           stored hash
EmptyLog == [oks |-> <<>>, locked_at |-> 0 - 1, code |-> None, wrongs |-> 0, tried |-> 0,
             compared |-> 0]

OwnPassword == "pw1"
Passwords == {"pw1", "pw2"}
Emails == {"a@x.io", "c@x.io", "d@x.io", "e@x.io", "z@x.io"}

\* Users in the table at the start: two verified customers, a customer who
\* has not verified, an administrator who has not verified, and a customer
\* whose account is switched off.
UserFixture ==
    [u \in {"u1", "u2", "u3", "u4", "u5"} |->
        [email           |-> CASE u = "u1" -> "a@x.io" [] u = "u2" -> "b@x.io"
                                  [] u = "u3" -> "c@x.io" [] u = "u4" -> "d@x.io"
                                  [] OTHER -> "e@x.io",
         hashed_password |-> hash_password(OwnPassword, u),
         is_active       |-> u # "u5",
         is_verified     |-> u \in {"u1", "u2", "u5"},
         role            |-> IF u = "u4" THEN "ADMIN" ELSE "CUSTOMER"]]


\* Permission codes and roles in the tables at the start, as the seed leaves
\* them and one create_role call after it: a system role, and a role an
\* administrator made.  A role's id is drawn when the role is made and is
\* never used again: here the number of the request that made it, and
\* negative numbers for the two roles of the start.
PermissionFixture == {"users:read", "users:write"}
RoleNames == {"SUPER_ADMIN", "EDITOR", "AUDITOR"}
SystemRoleId == 0 - 2
CustomRoleId == 0 - 1
RoleFixture ==
    [r \in {SystemRoleId, CustomRoleId} |->
        IF r = SystemRoleId
        THEN [name |-> "SUPER_ADMIN", is_system |-> TRUE,
              perms |-> {"users:read", "users:write"}]
        ELSE [name |-> "EDITOR", is_system |-> FALSE, perms |-> {"users:read"}]]

\* admin table: the role each administrator holds.
AdminRole == [u \in {"u4"} |-> CustomRoleId]

Init ==
    /\ tokens = <<>>
    /\ access = {}
    /\ cache = [k \in {} |-> None]
    /\ now = 0
    /\ pc = [p \in Procs |-> "idle"]
    /\ loc = [p \in Procs |-> Idle]
    /\ resp = NoResp
    /\ loggedOut = {}
    /\ collapsed = {}
    /\ nreq = 0
    /\ users = UserFixture
    /\ otpLog = [k \in LogPairs |-> EmptyLog]
    /\ roles = RoleFixture
    /\ permissions = PermissionFixture
    /\ audit = {}

\* Request slots are anonymous: a new request takes the lowest free slot.
FreeSlot(p) == pc[p] = "idle" /\ \A q \in Procs : q < p => pc[q] # "idle"

\* A new request is received.
Receive == nreq < MaxRequests /\ nreq' = nreq + 1

\* New refresh-token row; the raw value handed to the client is the row's id.
NewRow(user_id, family_id, parent) ==
    [user_id    |-> user_id,
     token_hash |-> HashToken(Len(tokens) + 1),
     family_id  |-> family_id,
     revoked    |-> FALSE,
     expires_at |-> now + REFRESH_TOKEN_MAX_AGE,
     parent     |-> parent]

\* Mutant: the where clause is lost and the first row comes back.
get_by_email_first(email) == "u1"

\* UserRepository.get_by_email: select where email == value
get_by_email(email) ==
    IF \E u \in DOMAIN users : users[u].email = email
    THEN CHOOSE u \in DOMAIN users : users[u].email = email
    ELSE None

\* Mutant: the failure says which check refused the login.
InvalidCredentials_telling(via) ==
    [op |-> "login", outcome |-> "AuthenticationError", error_code |-> "AUTH_001",
     message |-> via, via |-> via]

\* AuthenticationError(INVALID_CREDENTIALS) with the generic message; `via`
\* records the check that refused and is not part of the response.
InvalidCredentials(via) ==
    [op |-> "login", outcome |-> "AuthenticationError", error_code |-> "AUTH_001",
     message |-> "Invalid credentials", via |-> via]

\* AuthService.authenticate_user(email, password)
authenticate_user(email, password) ==
    LET u == get_by_email(email) IN
    IF u = None
    THEN [ok |-> FALSE, via |-> "not_found"]
    ELSE IF ~verify_password(password, users[u].hashed_password)
    THEN [ok |-> FALSE, via |-> "wrong_password"]
    ELSE IF ~users[u].is_active
    THEN [ok |-> FALSE, via |-> "inactive"]
    ELSE [ok |-> TRUE, user_id |-> u]

\* Mutant: the check is made for every role.
must_verify_email_any_role(user) == ~user.is_verified

\* if user.role == UserRole.CUSTOMER and not user.is_verified
must_verify_email(user) == user.role = "CUSTOMER" /\ ~user.is_verified

\* POST /auth/login: authenticate, require a verified email of customers,
\* then create_tokens issues one access token and one refresh token in a new
\* family.
login(username, password) ==
    /\ Receive
    /\ LET auth == authenticate_user(username, password) IN
       IF ~auth.ok
       THEN /\ resp' = InvalidCredentials(auth.via)
            /\ UNCHANGED <<tokens, access>>
       ELSE IF must_verify_email(users[auth.user_id])
       THEN /\ resp' = [op |-> "login", outcome |-> "AuthenticationError",
                        error_code |-> "AUTH_002",
                        message |-> "Please verify your email before logging in",
                        via |-> "unverified"]
            /\ UNCHANGED <<tokens, access>>
       ELSE /\ tokens' = create(tokens, NewRow(auth.user_id, Len(tokens) + 1, 0))
            /\ access' = access \cup {create_access_token(auth.user_id)}
            /\ resp' = [op |-> "login", outcome |-> "ok", user_id |-> auth.user_id,
                        child |-> Len(tokens) + 1,
                        at |-> create_access_token(auth.user_id)]
    /\ UNCHANGED <<cache, now, pc, loc, loggedOut, collapsed, users, otpLog>>
    /\ UNCHANGED <<roles, permissions, audit>>

\* The password each user of the fixture signs in with.
PasswordOf(u) == OwnPassword

\* A login of user u with u's own address and password.
Login(u) == login(users[u].email, PasswordOf(u))

\* Mutant: the message says what was wrong with the token.
RefreshMessage_telling(via) == via

\* The endpoint's message for a missing cookie, the generic one otherwise.
RefreshMessage(via) ==
    IF via = "no_cookie" THEN "Refresh token not provided" ELSE "Invalid refresh token"

\* Every refresh failure is raised as AuthenticationError(INVALID_REFRESH_TOKEN);
\* `via` and `presented` record the cause and are not part of the response.
Fail(p, via, id) ==
    resp' = [op |-> "refresh", outcome |-> "InvalidRefreshToken",
             error_code |-> "AUTH_006", message |-> RefreshMessage(via),
             via |-> via, presented |-> id]

\* POST /auth/refresh, up to the lookup: cookie check in the endpoint, then
\* refresh_access_token looks the presented token up by hash and classifies it.
RefreshStart(p, raw) ==
    /\ UNCHANGED <<users, otpLog, roles, permissions, audit>>
    /\ FreeSlot(p)
    /\ Receive
    /\ IF raw = NoCookie
       THEN /\ Fail(p, "no_cookie", 0)
            /\ UNCHANGED <<pc, loc>>
       ELSE LET id == get_by_token_hash(HashToken(raw)) IN
            IF id = 0
            THEN /\ Fail(p, "not_found", 0)
                 /\ UNCHANGED <<pc, loc>>
            ELSE IF tokens[id].revoked
            THEN /\ pc' = [pc EXCEPT ![p] = "rot_reuse"]
                 /\ loc' = [loc EXCEPT ![p] =
                        [op |-> "refresh", id |-> id, family_id |-> tokens[id].family_id]]
                 /\ resp' = NoResp
            ELSE IF ~(tokens[id].expires_at > now)
            THEN /\ Fail(p, "expired", id)
                 /\ UNCHANGED <<pc, loc>>
            ELSE /\ pc' = [pc EXCEPT ![p] = "rot_revoke"]
                 /\ loc' = [loc EXCEPT ![p] =
                        [op |-> "refresh", id |-> id,
                         user_id |-> tokens[id].user_id,
                         family_id |-> tokens[id].family_id,
                         after_logout |-> FALSE]]
                 /\ resp' = NoResp
    /\ UNCHANGED <<tokens, access, cache, now, loggedOut, collapsed>>

\* Reuse detected: revoke the whole family, then fail.
RotReuse(p) ==
    /\ UNCHANGED <<users, otpLog, roles, permissions, audit>>
    /\ pc[p] = "rot_reuse"
    /\ tokens' = revoke_family(tokens, loc[p].family_id)
    /\ Fail(p, "reuse", loc[p].id)
    /\ collapsed' = collapsed \cup {loc[p].family_id}
    /\ pc' = [pc EXCEPT ![p] = "idle"]
    /\ loc' = [loc EXCEPT ![p] = Idle]
    /\ UNCHANGED <<access, cache, now, loggedOut, nreq>>

\* Valid token: revoke the presented row (first commit).
RotRevoke(p) ==
    /\ UNCHANGED <<users, otpLog, roles, permissions, audit>>
    /\ pc[p] = "rot_revoke"
    /\ tokens' = revoke_token(tokens, loc[p].id)
    /\ pc' = [pc EXCEPT ![p] = "rot_create"]
    /\ resp' = NoResp
    /\ UNCHANGED <<access, cache, now, loc, loggedOut, collapsed, nreq>>

\* Valid token: insert the child row in the same family (second commit), mint
\* the access token for the owning user and return both.
RotCreate(p) ==
    /\ UNCHANGED <<users, otpLog, roles, permissions, audit>>
    /\ pc[p] = "rot_create"
    /\ tokens' = create(tokens, NewRow(loc[p].user_id, loc[p].family_id, loc[p].id))
    /\ access' = access \cup {create_access_token(loc[p].user_id)}
    /\ resp' = [op |-> "refresh", outcome |-> "ok", presented |-> loc[p].id,
                child |-> Len(tokens) + 1, at |-> create_access_token(loc[p].user_id),
                after_logout |-> loc[p].after_logout]
    /\ pc' = [pc EXCEPT ![p] = "idle"]
    /\ loc' = [loc EXCEPT ![p] = Idle]
    /\ UNCHANGED <<cache, now, loggedOut, collapsed, nreq>>

\* Valid token, the insert's commit raises (connection lost, constraint, pool
\* exhausted): nothing is inserted, the exception reaches the global handler.
\* The revoke committed by RotRevoke is not undone: it was its own transaction.
RotCreateFails(p) ==
    /\ UNCHANGED <<users, otpLog, roles, permissions, audit>>
    /\ pc[p] = "rot_create"
    /\ resp' = [op |-> "refresh", outcome |-> "ServerError", presented |-> loc[p].id]
    /\ pc' = [pc EXCEPT ![p] = "idle"]
    /\ loc' = [loc EXCEPT ![p] = Idle]
    /\ UNCHANGED <<tokens, access, cache, now, loggedOut, collapsed, nreq>>

\* The set computed from source: the permissions that exist and are
\* assigned to the role the user holds as administrator; nobody else has any.
SourcePermissions(u) ==
    IF u \in DOMAIN AdminRole /\ AdminRole[u] \in DOMAIN roles
    THEN roles[AdminRole[u]].perms \cap permissions
    ELSE {}

\* Locals of request q once the permission entry of the user has been deleted.
\* For a lookup of that user between its read of the source and its set_cache
\* they record, as history, that the delete happened and what the source held
\* at that moment.
AfterInvalidate(q, user_id) ==
    IF pc[q] = "perm_fill" /\ loc[q].user_id = user_id
    THEN [loc[q] EXCEPT !.invalidated = TRUE, !.floor = SourcePermissions(user_id)]
    ELSE loc[q]

\* Request q is a rotation of a token of the user, between its lookup and
\* its insert.  `after_logout` in its locals is history: a logout of the
\* user has answered since the lookup.
RotatingFor(q, user_id) ==
    pc[q] \in {"rot_revoke", "rot_create"} /\ loc[q].user_id = user_id

\* first of a non-empty set of row ids
MinId(S) == CHOOSE i \in S : \A j \in S : i <= j

\* POST /auth/logout, up to the read of the user's tokens.  get_current_user
\* has accepted the access token `at`; `bearer` tells whether the
\* Authorization header starts with the literal "Bearer ".
LogoutStart(p, at, bearer) ==
    /\ UNCHANGED <<users, otpLog, roles, permissions, audit>>
    /\ FreeSlot(p)
    /\ Receive
    /\ TokenAccepted(at)
    /\ pc' = [pc EXCEPT ![p] = "out_revoke"]
    /\ loc' = [loc EXCEPT ![p] =
            [op |-> "logout", user_id |-> at.sub, at |-> at, bearer |-> bearer,
             todo |-> get_by_user_id(at.sub), seen |-> Len(tokens),
             dropped |-> FALSE]]
    /\ resp' = NoResp
    /\ UNCHANGED <<tokens, access, cache, now, loggedOut, collapsed>>

\* AuthService.logout: revoke the rows that were read, one commit each.
LogoutRevoke(p) ==
    /\ UNCHANGED <<users, otpLog, roles, permissions, audit>>
    /\ pc[p] = "out_revoke"
    /\ IF loc[p].todo = {}
       THEN /\ pc' = [pc EXCEPT ![p] = "out_cache"]
            /\ UNCHANGED <<tokens, loc>>
       ELSE LET id == MinId(loc[p].todo) IN
            /\ tokens' = revoke_token(tokens, id)
            /\ loc' = [loc EXCEPT ![p].todo = @ \ {id}]
            /\ UNCHANGED pc
    /\ resp' = NoResp
    /\ UNCHANGED <<access, cache, now, loggedOut, collapsed, nreq>>

\* AuthService.logout: drop the user's permission-cache entry.
LogoutCache(p) ==
    /\ UNCHANGED <<users, otpLog, roles, permissions, audit>>
    /\ pc[p] = "out_cache"
    /\ cache' = delete_cache(cache, user_permissions_key(loc[p].user_id))
    /\ loc' = [q \in Procs |->
                IF q = p
                THEN [loc[p] EXCEPT !.dropped = Live(cache, user_permissions_key(loc[p].user_id))]
                ELSE AfterInvalidate(q, loc[p].user_id)]
    /\ pc' = [pc EXCEPT ![p] = "out_blacklist"]
    /\ resp' = NoResp
    /\ UNCHANGED <<tokens, access, now, loggedOut, collapsed, nreq>>

\* Mutant: the expire argument is left out and set_cache uses its default.
BlacklistTTL_default == DEFAULT_CACHE_EXPIRE

\* TTL the endpoint gives the blacklist entry
BlacklistTTL == ACCESS_TOKEN_EXPIRE_MINUTES * 60

\* Endpoint tail: blacklist the Bearer token, clear the cookie, answer.
LogoutBlacklist(p) ==
    /\ UNCHANGED <<users, otpLog, roles, permissions, audit>>
    /\ pc[p] = "out_blacklist"
    /\ IF loc[p].bearer
       THEN /\ cache' = set_cache(cache, blacklist_key(loc[p].at), "1", BlacklistTTL)
            /\ loggedOut' = loggedOut \cup {loc[p].at}
       ELSE UNCHANGED <<cache, loggedOut>>
    /\ collapsed' = collapsed \cup
            {tokens[i].family_id : i \in {j \in TokenIds :
                /\ tokens[j].user_id = loc[p].user_id
                /\ \A k \in TokenIds :
                      tokens[k].family_id = tokens[j].family_id => tokens[k].revoked}}
    /\ resp' = [op |-> "logout", outcome |-> "ok", user_id |-> loc[p].user_id,
                at |-> loc[p].at, bearer |-> loc[p].bearer, dropped |-> loc[p].dropped,
                seen |-> loc[p].seen]
    /\ pc' = [pc EXCEPT ![p] = "idle"]
    /\ loc' = [q \in Procs |->
                IF q = p THEN Idle
                ELSE IF RotatingFor(q, loc[p].user_id)
                THEN [loc[q] EXCEPT !.after_logout = TRUE]
                ELSE loc[q]]
    /\ UNCHANGED <<tokens, access, now, nreq>>

\* Authorization layer: permission lookup.  A hit answers from the cache.  On
\* a miss the set is read from source; the read is taken in the same step as
\* the miss, which loses no behaviour, since the read does not depend on the
\* cache nor the miss on the tables.
PermStart(p, u) ==
    /\ UNCHANGED <<users, otpLog, roles, permissions, audit>>
    /\ FreeSlot(p)
    /\ Receive
    /\ IF get_cache_obj(user_permissions_key(u)) # NoObj
       THEN /\ resp' = [op |-> "perm", outcome |-> "hit", user_id |-> u,
                        perms |-> get_cache_obj(user_permissions_key(u)).perms]
            /\ UNCHANGED <<pc, loc>>
       ELSE /\ pc' = [pc EXCEPT ![p] = "perm_fill"]
            /\ loc' = [loc EXCEPT ![p] = [op |-> "perm", user_id |-> u,
                                          perms |-> SourcePermissions(u),
                                          invalidated |-> FALSE, floor |-> {}]]
            /\ resp' = NoResp
    /\ UNCHANGED <<tokens, access, cache, now, loggedOut, collapsed>>

\* Authorization layer: the set that was read is cached and answered.
PermFill(p) ==
    /\ UNCHANGED <<users, otpLog, roles, permissions, audit>>
    /\ pc[p] = "perm_fill"
    /\ cache' = set_cache(cache, user_permissions_key(loc[p].user_id),
                          [perms |-> loc[p].perms], DEFAULT_CACHE_EXPIRE)
    /\ resp' = [op |-> "perm", outcome |-> "filled", user_id |-> loc[p].user_id,
                perms |-> loc[p].perms, invalidated |-> loc[p].invalidated,
                floor |-> loc[p].floor]
    /\ pc' = [pc EXCEPT ![p] = "idle"]
    /\ loc' = [loc EXCEPT ![p] = Idle]
    /\ UNCHANGED <<tokens, access, now, loggedOut, collapsed, nreq>>

\* Permission cache: invalidate(user_id) removes the user's entry at once.
invalidate(p, user_id) ==
    /\ UNCHANGED <<users, otpLog, roles, permissions, audit>>
    /\ FreeSlot(p)
    /\ Receive
    /\ cache' = delete_cache(cache, user_permissions_key(user_id))
    /\ loc' = [q \in Procs |-> AfterInvalidate(q, user_id)]
    /\ resp' = [op |-> "invalidate", outcome |-> "ok", user_id |-> user_id]
    /\ UNCHANGED <<tokens, access, now, pc, loggedOut, collapsed>>

----------------------------------------------------------------------------
(* OTP engine (OTPService).  A call is atomic on the keys of its pair. *)

OtpReceive == nreq < MaxOtpRequests /\ nreq' = nreq + 1

LogAdvance(log, t) ==
    LET oks == SelectSeq(log.oks, LAMBDA x : x > t - 3600)
        gone == log.code = None \/ log.oks = <<>> \/ log.oks[Len(log.oks)] + 600 <= t
    IN [oks       |-> oks,
        locked_at |-> IF log.locked_at >= 0 /\ t < log.locked_at + 86400
                      THEN log.locked_at ELSE 0 - 1,
        code      |-> IF gone THEN None ELSE log.code,
        wrongs    |-> IF gone THEN 0 ELSE log.wrongs,
        tried     |-> IF gone THEN 0 ELSE log.tried,
        compared  |-> IF gone THEN 0 ELSE log.compared]

LogGenerate(log, outcome, code) ==
    IF outcome = "ok"
    THEN [log EXCEPT !.oks = Append(@, now), !.code = code, !.wrongs = 0, !.tried = 0,
                     !.compared = 0]
    ELSE IF Len(log.oks) >= 5 /\ log.locked_at < 0
    THEN [log EXCEPT !.locked_at = now]
    ELSE log

LogVerify(log, otp) ==
    IF log.code = None THEN log
    ELSE IF otp = log.code THEN [log EXCEPT !.tried = @ + 1]
    ELSE IF log.tried = 0 THEN [log EXCEPT !.wrongs = @ + 1]
    ELSE log

LogCompare(log, compared) ==
    IF compared /\ log.code # None THEN [log EXCEPT !.compared = @ + 1] ELSE log

\* Issue times of the successful generates of the trailing hour, oldest first.
ResendStamps(email, otp_type) ==
    LET r == get_cache_obj(rate_limit_key(email, resend_scope(otp_type))) IN
    IF r = NoObj
    THEN <<>>
    ELSE SelectSeq(r.stamps, LAMBDA t : t > now - OTP_RESEND_WINDOW)

OtpResp(op, email, otp_type, code, outcome, error_code) ==
    [op |-> op, email |-> email, otp_type |-> otp_type, code |-> code,
     outcome |-> outcome, error_code |-> error_code]

\* OTPService.generate_otp(email, otp_type); `code` is the fresh 6-digit code.
generate_otp(email, otp_type, code) ==
    /\ OtpReceive
    /\ LET lockout  == rate_limit_key(email, lockout_scope(otp_type))
           cooldown == rate_limit_key(email, cooldown_scope(otp_type))
           resend   == rate_limit_key(email, resend_scope(otp_type))
           stamps   == ResendStamps(email, otp_type)
       IN
       IF get_cache(lockout) # None
       THEN /\ resp' = OtpResp("generate", email, otp_type, None, "Locked", "OTP_005")
            /\ UNCHANGED cache
       ELSE IF Len(stamps) >= MAX_OTP_RESENDS_PER_HOUR
       THEN /\ cache' = set_cache(cache, lockout, "1", OTP_LOCKOUT_SECONDS)
            /\ resp' = OtpResp("generate", email, otp_type, None, "Locked", "OTP_005")
       ELSE IF get_cache(cooldown) # None
       THEN /\ resp' = OtpResp("generate", email, otp_type, None, "RateLimited", "OTP_004")
            /\ UNCHANGED cache
       ELSE /\ cache' =
                set_cache(
                  set_cache(
                    set_cache(cache, otp_key(email, otp_type),
                              [otp |-> hash_otp(code), attempts |-> 0],
                              OTP_EXPIRY_SECONDS),
                    cooldown, "1", OTP_COOLDOWN_SECONDS),
                  resend, [stamps |-> Append(stamps, now)], OTP_RESEND_WINDOW)
            /\ resp' = OtpResp("generate", email, otp_type, code, "ok", None)
    /\ otpLog' = [otpLog EXCEPT ![<<email, otp_type>>] = LogGenerate(@, resp'.outcome, code)]
    /\ UNCHANGED <<tokens, access, now, pc, loc, loggedOut, collapsed, users>>
    /\ UNCHANGED <<roles, permissions, audit>>

\* Mutant: the comparison is skipped and every submitted code matches.
otp_matches_any(otp, record) == TRUE

\* The hash of the submitted code against the stored hash.
otp_matches(otp, record) == hash_otp(otp) = record.otp

\* OTPService.verify_otp(email, otp, otp_type)
verify_otp(email, otp, otp_type) ==
    /\ OtpReceive
    /\ LET key    == otp_key(email, otp_type)
           record == get_cache_obj(key)
       IN
       IF record = NoObj
       THEN /\ resp' = OtpResp("verify", email, otp_type, otp, "NotFound", "OTP_002")
            /\ UNCHANGED cache
       ELSE IF record.attempts >= MAX_OTP_ATTEMPTS
       THEN /\ cache' = delete_cache(cache, key)
            /\ resp' = OtpResp("verify", email, otp_type, otp, "MaxAttemptsExceeded", "OTP_003")
       ELSE IF ~otp_matches(otp, record)
       THEN /\ cache' = set_cache(cache, key,
                                  [record EXCEPT !.attempts = @ + 1], get_ttl(key))
            /\ resp' = OtpResp("verify", email, otp_type, otp, "Invalid", "OTP_001")
       ELSE /\ cache' = delete_cache(cache, key)
            /\ resp' = OtpResp("verify", email, otp_type, otp, "ok", None)
    /\ otpLog' = [otpLog EXCEPT ![<<email, otp_type>>] =
                      LogCompare(LogVerify(@, otp), resp'.outcome \in {"Invalid", "ok"})]
    /\ UNCHANGED <<tokens, access, now, pc, loc, loggedOut, collapsed, users>>
    /\ UNCHANGED <<roles, permissions, audit>>

\* What verify_otp answers for the record it read, and the cache it leaves.
verify_otp_outcome(record, otp) ==
    IF record = NoObj THEN "NotFound"
    ELSE IF record.attempts >= MAX_OTP_ATTEMPTS THEN "MaxAttemptsExceeded"
    ELSE IF ~otp_matches(otp, record) THEN "Invalid"
    ELSE "ok"

verify_otp_cache(key, record, otp) ==
    CASE verify_otp_outcome(record, otp) = "NotFound" -> cache
      [] verify_otp_outcome(record, otp) = "Invalid" ->
            set_cache(cache, key, [record EXCEPT !.attempts = @ + 1], get_ttl(key))
      [] OTHER -> delete_cache(cache, key)

\* Mutant: the endpoint checks the code against the password-reset record.
verify_email_otp_type_reset == "PASSWORD_RESET"

\* The purpose the verify-email endpoint passes to verify_otp.
verify_email_otp_type == "EMAIL_VERIFICATION"

\* AuthService.verify_email(user_id): flips the verified flag; idempotent.
auth_service_verify_email(table, user_id) ==
    [table EXCEPT ![user_id].is_verified = TRUE]

\* POST /auth/verify-email: verify_otp for the address with the purpose of
\* email verification; an OTP error ends the request.  Then the user is looked
\* up by the address and, when there is one, marked verified.
verify_email(email, otp) ==
    /\ OtpReceive
    /\ LET key     == otp_key(email, verify_email_otp_type)
           record  == get_cache_obj(key)
           outcome == verify_otp_outcome(record, otp)
           user    == get_by_email(email)
       IN
       /\ cache' = verify_otp_cache(key, record, otp)
       /\ otpLog' = [otpLog EXCEPT ![<<email, verify_email_otp_type>>] =
                         LogCompare(LogVerify(@, otp), outcome \in {"Invalid", "ok"})]
       /\ users' = IF outcome = "ok" /\ user # None
                   THEN auth_service_verify_email(users, user)
                   ELSE users
       /\ resp' = [op |-> "verify_email", email |-> email, otp |-> otp,
                   outcome |-> outcome,
                   status |-> IF outcome = "ok" THEN 200 ELSE 400]
    /\ UNCHANGED <<tokens, access, now, pc, loc, loggedOut, collapsed>>
    /\ UNCHANGED <<roles, permissions, audit>>

\* verify_otp command by command, for calls that run at the same time.  The
\* call above is this one with nothing between its two steps.
\* First step: get_cache of the record.
VerifyRead(p, email, otp, otp_type) ==
    /\ FreeSlot(p)
    /\ nreq < MaxVerifyRequests /\ nreq' = nreq + 1
    /\ LET record == get_cache_obj(otp_key(email, otp_type)) IN
       /\ IF record = NoObj
          THEN /\ resp' = OtpResp("verify", email, otp_type, otp, "NotFound", "OTP_002")
               /\ UNCHANGED <<pc, loc>>
          ELSE /\ pc' = [pc EXCEPT ![p] = "verify_write"]
               /\ loc' = [loc EXCEPT ![p] = [op |-> "verify", email |-> email,
                                             otp |-> otp, otp_type |-> otp_type,
                                             record |-> record]]
               /\ resp' = NoResp
       /\ otpLog' = [otpLog EXCEPT ![<<email, otp_type>>] =
                        LogCompare(LogVerify(@, otp),
                                   record # NoObj /\ record.attempts < MAX_OTP_ATTEMPTS)]
    /\ UNCHANGED <<tokens, access, cache, now, loggedOut, collapsed, users>>
    /\ UNCHANGED <<roles, permissions, audit>>

\* Second step: the record that was read decides; the counter that was read,
\* plus one, is written back, or the record is deleted.
VerifyWrite(p) ==
    /\ pc[p] = "verify_write"
    /\ LET key    == otp_key(loc[p].email, loc[p].otp_type)
           record == loc[p].record
       IN
       IF record.attempts >= MAX_OTP_ATTEMPTS
       THEN /\ cache' = delete_cache(cache, key)
            /\ resp' = OtpResp("verify", loc[p].email, loc[p].otp_type, loc[p].otp,
                               "MaxAttemptsExceeded", "OTP_003")
       ELSE IF ~otp_matches(loc[p].otp, record)
       THEN /\ cache' = set_cache(cache, key,
                                  [record EXCEPT !.attempts = @ + 1], get_ttl(key))
            /\ resp' = OtpResp("verify", loc[p].email, loc[p].otp_type, loc[p].otp,
                               "Invalid", "OTP_001")
       ELSE /\ cache' = delete_cache(cache, key)
            /\ resp' = OtpResp("verify", loc[p].email, loc[p].otp_type, loc[p].otp,
                               "ok", None)
    /\ pc' = [pc EXCEPT ![p] = "idle"]
    /\ loc' = [loc EXCEPT ![p] = Idle]
    /\ UNCHANGED <<tokens, access, now, loggedOut, collapsed, users, nreq, otpLog>>
    /\ UNCHANGED <<roles, permissions, audit>>

----------------------------------------------------------------------------
\* Wall clock advances; Redis drops keys whose TTL ran out, and access
\* tokens past their expiry can no longer be presented with success.
Advance(d) ==
    /\ now' = now + d
    /\ cache' = [k \in {k \in DOMAIN cache : cache[k].exp > now + d} |-> cache[k]]
    /\ access' = {at \in access : at.exp > now + d}
    /\ loggedOut' = {at \in loggedOut : at.exp > now + d}
    /\ resp' = NoResp
    /\ otpLog' = [k \in LogPairs |-> LogAdvance(otpLog[k], now + d)]
    /\ UNCHANGED <<tokens, pc, loc, collapsed, nreq, users>>
    /\ UNCHANGED <<roles, permissions, audit>>

Tick(d) == TicksTaken < MaxTicks /\ Advance(d)

\* Clock steps of the OTP engine: just inside the cooldown, just past it,
\* and one second short of the lockout.
InsideCooldown == OTP_COOLDOWN_SECONDS - 1
PastCooldown == OTP_COOLDOWN_SECONDS + 1
InsideLockout == 24 * 60 * 60 - 1

OtpTicksTaken == (now \div InsideLockout) + ((now % InsideLockout) \div InsideCooldown)

OtpTick(d) == OtpTicksTaken < MaxOtpTicks /\ Advance(d)

----------------------------------------------------------------------------
(* Audit sink *)

\* The entry log_action builds from its arguments.
AuditLog(action, actor_id, target_id, target_type) ==
    [action |-> action, actor_id |-> actor_id, target_id |-> target_id,
     target_type |-> target_type]

\* AuditService.log_action returns normally exactly when insert_one does:
\* nothing around the insert catches its exception.
log_action(sink_ok) == sink_ok

\* The collection after log_action was called with the entry.
insert_one(entry, sink_ok) == IF sink_ok THEN audit \cup {entry} ELSE audit

----------------------------------------------------------------------------
(* Password change *)

\* Mutant: a password one character shorter is let through.
MIN_PASSWORD_LENGTH_less == 8 - 1
MIN_PASSWORD_LENGTH == 8

\* Passwords offered as the new one: seven, eight and eleven characters.
NewPasswords == {"short77", "longer88", "evenlonger9"}
Salts == {"s1", "s2"}

\* get_password_hash: hash under a salt drawn for this call
get_password_hash(password, salt) == hash_password(password, salt)

\* Depends(get_current_verified_user): the caller is an active user whose
\* email is verified.
get_current_verified_user(u) == users[u].is_active /\ users[u].is_verified

\* The answer to a change_password request.  The fields after `message` are
\* the request it answers, kept for the record; they are not sent.
PasswordResp(outcome, message, u, current_password, new_password) ==
    [op |-> "change_password", outcome |-> outcome, message |-> message,
     user_id |-> u, current_password |-> current_password,
     new_password |-> new_password]

\* POST /auth/change-password
change_password(u, current_password, new_password, salt, sink_ok) ==
    /\ get_current_verified_user(u)
    /\ Receive
    /\ IF ~verify_password(current_password, users[u].hashed_password)
       THEN /\ resp' = PasswordResp("ValidationError", "Current password is incorrect",
                                    u, current_password, new_password)
            /\ UNCHANGED <<users, audit>>
       ELSE IF Len(new_password) < MIN_PASSWORD_LENGTH
       THEN /\ resp' = PasswordResp("ValidationError",
                                    "New password must be at least 8 characters",
                                    u, current_password, new_password)
            /\ UNCHANGED <<users, audit>>
       ELSE /\ users' = [users EXCEPT ![u].hashed_password =
                                          get_password_hash(new_password, salt)]
            /\ audit' = insert_one(AuditLog("change_password", u, u, "user"), sink_ok)
            /\ resp' = IF log_action(sink_ok)
                       THEN PasswordResp("ok", "Password changed successfully",
                                         u, current_password, new_password)
                       ELSE PasswordResp("ServerError", "Internal Server Error",
                                         u, current_password, new_password)
    /\ UNCHANGED <<tokens, access, cache, now, pc, loc, loggedOut, collapsed>>
    /\ UNCHANGED <<otpLog, roles, permissions>>

----------------------------------------------------------------------------
(* Roles and permissions (RoleService, PermissionService).  A call reads,   *)
(* then commits in a second step; the audit entry is written after commit. *)

\* An optional argument that was not given.
NotGiven == {None}

\* RoleRepository.get_by_name: the rows with that name
get_by_name(name) == {r \in DOMAIN roles : roles[r].name = name}

RoleResp(op, outcome, error_code, role_id) ==
    [op |-> op, outcome |-> outcome, error_code |-> error_code, role_id |-> role_id]

\* What the caller gets once the change is committed and log_action was
\* called: the result, or the answer to the exception log_action let through.
AfterAudit(op, role_id, sink_ok) ==
    IF log_action(sink_ok)
    THEN RoleResp(op, "ok", None, role_id)
    ELSE RoleResp(op, "ServerError", "SRV_001", role_id)

\* RoleService.create_role, up to the call of the repository
create_role(p, name, actor_id, permission_ids) ==
    /\ FreeSlot(p)
    /\ Receive
    /\ IF Cardinality(get_by_name(name)) > 1
       THEN /\ resp' = RoleResp("create_role", "ServerError", "SRV_001", 0)
            /\ UNCHANGED <<pc, loc>>
       ELSE IF get_by_name(name) # {}
       THEN /\ resp' = RoleResp("create_role", "ConflictError", "ROLE_001", 0)
            /\ UNCHANGED <<pc, loc>>
       ELSE /\ pc' = [pc EXCEPT ![p] = "role_create"]
            /\ loc' = [loc EXCEPT ![p] = [op |-> "create_role", name |-> name,
                                          actor_id |-> actor_id,
                                          permission_ids |-> permission_ids,
                                          role_id |-> nreq + 1]]
            /\ resp' = NoResp
    /\ UNCHANGED <<tokens, access, cache, now, loggedOut, collapsed>>
    /\ UNCHANGED <<users, otpLog, roles, permissions, audit>>

\* RoleRepository.create_role commits the row and its permissions; then the
\* audit entry.
CreateRoleCommit(p, sink_ok) ==
    /\ pc[p] = "role_create"
    /\ roles' = (loc[p].role_id :>
                    [name |-> loc[p].name, is_system |-> FALSE,
                     perms |-> IF loc[p].permission_ids = NotGiven
                               THEN {} ELSE loc[p].permission_ids]) @@ roles
    /\ audit' = insert_one(AuditLog("create_role", loc[p].actor_id,
                                    ToString(loc[p].role_id), "role"), sink_ok)
    /\ resp' = AfterAudit("create_role", loc[p].role_id, sink_ok)
    /\ pc' = [pc EXCEPT ![p] = "idle"]
    /\ loc' = [loc EXCEPT ![p] = Idle]
    /\ UNCHANGED <<tokens, access, cache, now, loggedOut, collapsed, nreq>>
    /\ UNCHANGED <<users, otpLog, permissions>>

\* The checks update_role and delete_role make on the role they read.
RoleRefusal(op, role_id) ==
    IF role_id \notin DOMAIN roles
    THEN RoleResp(op, "NotFoundError", "PERM_002", role_id)
    ELSE IF roles[role_id].is_system
    THEN RoleResp(op, "ValidationError", "ROLE_002", role_id)
    ELSE NoResp

\* RoleService.update_role, up to the call of the repository
update_role(p, role_id, actor_id, name, permission_ids) ==
    /\ FreeSlot(p)
    /\ Receive
    /\ resp' = RoleRefusal("update_role", role_id)
    /\ IF RoleRefusal("update_role", role_id) # NoResp
       THEN UNCHANGED <<pc, loc>>
       ELSE /\ pc' = [pc EXCEPT ![p] = "role_update"]
            /\ loc' = [loc EXCEPT ![p] = [op |-> "update_role", role_id |-> role_id,
                                          actor_id |-> actor_id, name |-> name,
                                          permission_ids |-> permission_ids]]
    /\ UNCHANGED <<tokens, access, cache, now, loggedOut, collapsed>>
    /\ UNCHANGED <<users, otpLog, roles, permissions, audit>>

\* RoleRepository.update_role: read the row again, set the fields that were
\* given, replace the permissions if given, commit; then the audit entry.
UpdateRoleCommit(p, sink_ok) ==
    /\ pc[p] = "role_update"
    /\ roles' = IF loc[p].role_id \notin DOMAIN roles
                THEN roles
                ELSE [roles EXCEPT
                        ![loc[p].role_id].name =
                            IF loc[p].name # None THEN loc[p].name ELSE @,
                        ![loc[p].role_id].perms =
                            IF loc[p].permission_ids # NotGiven
                            THEN loc[p].permission_ids ELSE @]
    /\ audit' = insert_one(AuditLog("update_role", loc[p].actor_id,
                                    ToString(loc[p].role_id), "role"), sink_ok)
    /\ resp' = AfterAudit("update_role", loc[p].role_id, sink_ok)
    /\ pc' = [pc EXCEPT ![p] = "idle"]
    /\ loc' = [loc EXCEPT ![p] = Idle]
    /\ UNCHANGED <<tokens, access, cache, now, loggedOut, collapsed, nreq>>
    /\ UNCHANGED <<users, otpLog, permissions>>

\* RoleService.delete_role, up to the call of the repository
delete_role(p, role_id, actor_id) ==
    /\ FreeSlot(p)
    /\ Receive
    /\ resp' = RoleRefusal("delete_role", role_id)
    /\ IF RoleRefusal("delete_role", role_id) # NoResp
       THEN UNCHANGED <<pc, loc>>
       ELSE /\ pc' = [pc EXCEPT ![p] = "role_delete"]
            /\ loc' = [loc EXCEPT ![p] = [op |-> "delete_role", role_id |-> role_id,
                                          actor_id |-> actor_id]]
    /\ UNCHANGED <<tokens, access, cache, now, loggedOut, collapsed>>
    /\ UNCHANGED <<users, otpLog, roles, permissions, audit>>

\* BaseRepository.delete: read the row again, delete it if it is there,
\* commit; then the audit entry.
DeleteRoleCommit(p, sink_ok) ==
    /\ pc[p] = "role_delete"
    /\ roles' = [r \in DOMAIN roles \ {loc[p].role_id} |-> roles[r]]
    /\ audit' = insert_one(AuditLog("delete_role", loc[p].actor_id,
                                    ToString(loc[p].role_id), "role"), sink_ok)
    /\ resp' = AfterAudit("delete_role", loc[p].role_id, sink_ok)
    /\ pc' = [pc EXCEPT ![p] = "idle"]
    /\ loc' = [loc EXCEPT ![p] = Idle]
    /\ UNCHANGED <<tokens, access, cache, now, loggedOut, collapsed, nreq>>
    /\ UNCHANGED <<users, otpLog, permissions>>

\* PermissionService.delete_permission, up to the call of the repository
delete_permission(p, permission_id, actor_id) ==
    /\ FreeSlot(p)
    /\ Receive
    /\ IF permission_id \notin permissions
       THEN /\ resp' = [op |-> "delete_permission", outcome |-> "NotFoundError",
                        error_code |-> "PERM_003", permission_id |-> permission_id]
            /\ UNCHANGED <<pc, loc>>
       ELSE /\ pc' = [pc EXCEPT ![p] = "permission_delete"]
            /\ loc' = [loc EXCEPT ![p] = [op |-> "delete_permission",
                                          permission_id |-> permission_id,
                                          actor_id |-> actor_id]]
            /\ resp' = NoResp
    /\ UNCHANGED <<tokens, access, cache, now, loggedOut, collapsed>>
    /\ UNCHANGED <<users, otpLog, roles, permissions, audit>>

\* BaseRepository.delete of the permission row; then the audit entry.  A
\* role_permission row that still names the permission joins to nothing.
DeletePermissionCommit(p, sink_ok) ==
    /\ pc[p] = "permission_delete"
    /\ permissions' = permissions \ {loc[p].permission_id}
    /\ audit' = insert_one(AuditLog("delete_permission", loc[p].actor_id,
                                    loc[p].permission_id, "permission"), sink_ok)
    /\ resp' = [op |-> "delete_permission",
                outcome |-> IF log_action(sink_ok) THEN "ok" ELSE "ServerError",
                error_code |-> IF log_action(sink_ok) THEN None ELSE "SRV_001",
                permission_id |-> loc[p].permission_id]
    /\ pc' = [pc EXCEPT ![p] = "idle"]
    /\ loc' = [loc EXCEPT ![p] = Idle]
    /\ UNCHANGED <<tokens, access, cache, now, loggedOut, collapsed, nreq>>
    /\ UNCHANGED <<users, otpLog, roles>>

----------------------------------------------------------------------------
(* Registration *)

\* Addresses offered at registration: one that is taken, the same in other
\* letter case in the local part and in the domain, and one that is free.
RegEmails == {"a@x.io", "A@x.io", "a@X.io", "new@x.io", "New@x.io"}

\* str.lower on the addresses of the model
lower(email) ==
    CASE email \in {"A@x.io", "a@X.io"} -> "a@x.io"
      [] email = "New@x.io" -> "new@x.io"
      [] OTHER -> email

\* EmailStr: the validated address keeps its local part and has its domain
\* in lower case.
EmailStr(email) == IF email = "a@X.io" THEN "a@x.io" ELSE email

RegisterResp(outcome, status, error_code, email) ==
    [op |-> "register", outcome |-> outcome, status |-> status,
     error_code |-> error_code, email |-> email]

\* AuthService.register_customer, up to the insert: the address must not be
\* that of a user.
register_customer(p, email, password, salt) ==
    /\ FreeSlot(p)
    /\ Receive
    /\ IF get_by_email(EmailStr(email)) # None
       THEN /\ resp' = RegisterResp("ConflictError", 409, "USER_002", EmailStr(email))
            /\ UNCHANGED <<pc, loc>>
       ELSE /\ pc' = [pc EXCEPT ![p] = "register_create"]
            /\ loc' = [loc EXCEPT ![p] =
                          [op |-> "register", email |-> EmailStr(email),
                           hashed_password |-> get_password_hash(password, salt),
                           user_id |-> "n" \o ToString(nreq + 1)]]
            /\ resp' = NoResp
    /\ UNCHANGED <<tokens, access, cache, now, loggedOut, collapsed>>
    /\ UNCHANGED <<users, otpLog, roles, permissions, audit>>

\* The insert of the user row.  The email column is declared unique: an
\* insert of an address that is in the table, letter for letter, is refused
\* by the database.
RegisterCreate(p) ==
    /\ pc[p] = "register_create"
    /\ IF \E u \in DOMAIN users : users[u].email = loc[p].email
       THEN /\ resp' = RegisterResp("ServerError", 500, "SRV_001", loc[p].email)
            /\ UNCHANGED users
       ELSE /\ users' = (loc[p].user_id :>
                            [email           |-> loc[p].email,
                             hashed_password |-> loc[p].hashed_password,
                             is_active       |-> TRUE,
                             is_verified     |-> FALSE,
                             role            |-> "CUSTOMER"]) @@ users
            /\ resp' = RegisterResp("ok", 201, None, loc[p].email)
    /\ pc' = [pc EXCEPT ![p] = "idle"]
    /\ loc' = [loc EXCEPT ![p] = Idle]
    /\ UNCHANGED <<tokens, access, cache, now, loggedOut, collapsed, nreq>>
    /\ UNCHANGED <<otpLog, roles, permissions, audit>>

Next ==
    \/ \E u \in Users : Login(u)
    \/ \E p \in Procs, raw \in RawTokens : RefreshStart(p, raw)
    \/ \E p \in Procs : RotReuse(p)
    \/ \E p \in Procs : RotRevoke(p)
    \/ \E p \in Procs : RotCreate(p)
    \/ \E p \in Procs, at \in access, bearer \in BOOLEAN : LogoutStart(p, at, bearer)
    \/ \E p \in Procs : LogoutRevoke(p)
    \/ \E p \in Procs : LogoutCache(p)
    \/ \E p \in Procs : LogoutBlacklist(p)
    \/ \E p \in Procs, u \in Users : PermStart(p, u)
    \/ \E p \in Procs : PermFill(p)
    \/ Tick(ShortTick)
    \/ Tick(LongTick)

Spec == Init /\ [][Next]_vars

\* The refresh-token store on its own clock: login, refresh, logout, and
\* steps of seven days.  Refresh tokens do not notice shorter steps.
NextTok ==
    \/ \E u \in Users : Login(u)
    \/ \E p \in Procs, raw \in RawTokens : RefreshStart(p, raw)
    \/ \E p \in Procs : RotReuse(p)
    \/ \E p \in Procs : RotRevoke(p)
    \/ \E p \in Procs : RotCreate(p)
    \/ \E p \in Procs, at \in access, bearer \in BOOLEAN : LogoutStart(p, at, bearer)
    \/ \E p \in Procs : LogoutRevoke(p)
    \/ \E p \in Procs : LogoutCache(p)
    \/ \E p \in Procs : LogoutBlacklist(p)
    \/ Tick(LongTick)

SpecTok == Init /\ [][NextTok]_vars

\* The cache side of a session: login, logout, permission lookups, and steps
\* of five minutes.  Refresh neither reads nor writes a cache key.
NextSess ==
    \/ \E u \in Users : Login(u)
    \/ \E p \in Procs, at \in access, bearer \in BOOLEAN : LogoutStart(p, at, bearer)
    \/ \E p \in Procs : LogoutRevoke(p)
    \/ \E p \in Procs : LogoutCache(p)
    \/ \E p \in Procs : LogoutBlacklist(p)
    \/ \E p \in Procs, u \in Users : PermStart(p, u)
    \/ \E p \in Procs : PermFill(p)
    \/ Tick(ShortTick)

SpecSess == Init /\ [][NextSess]_vars

\* A code that differs from the one issued last for the pair.
FreshCode(k) == IF otpLog[k].code = "111111" THEN "222222" ELSE "111111"

\* OTP issuing on its own clock: generate for one address and both purposes,
\* each time with a code other than the last, and clock steps around the
\* cooldown and the lockout.
NextOtp ==
    \/ \E e \in OtpEmails, t \in OTPType : generate_otp(e, t, FreshCode(<<e, t>>))
    \/ OtpTick(InsideCooldown)
    \/ OtpTick(PastCooldown)
    \/ OtpTick(InsideLockout)

SpecOtp == Init /\ [][NextOtp]_vars

\* OTP checking: generate and verify for one address and both purposes, and
\* clock steps past the cooldown so that a code can be issued again.
NextOtpVerify ==
    \/ \E e \in OtpEmails, t \in OTPType, code \in Codes :
            nreq < MaxVerifyRequests /\ generate_otp(e, t, code)
    \/ \E e \in OtpEmails, t \in OTPType, otp \in Codes :
            nreq < MaxVerifyRequests /\ verify_otp(e, otp, t)
    \/ OtpTicksTaken < MaxVerifyTicks /\ OtpTick(PastCooldown)

SpecOtpVerify == Init /\ [][NextOtpVerify]_vars

\* Signing in: any address with any password, over seven-day steps.
NextAuth ==
    \/ \E e \in Emails, pw \in Passwords : login(e, pw)
    \/ Tick(LongTick)

SpecAuth == Init /\ [][NextAuth]_vars

\* Passwords: any user changes the password, giving any current and any new
\* one, and signs in with any of them.
NextPwd ==
    \/ \E u \in DOMAIN users, cur \in Passwords \cup NewPasswords,
          new \in NewPasswords, salt \in Salts, sink_ok \in BOOLEAN :
            change_password(u, cur, new, salt, sink_ok)
    \/ \E e \in {"a@x.io"}, pw \in Passwords \cup NewPasswords : login(e, pw)

SpecPwd == Init /\ [][NextPwd]_vars

\* The administrator whose requests change roles, and the arguments tried.
Actors == {"u4"}
PermissionChoices == {NotGiven, {}, {"users:read", "users:write"}}

\* Roles and the permission cache: an administrator's permissions are looked
\* up while roles and permissions are changed, over steps of five minutes.
\* The audit sink is up.
NextRbac ==
    \/ \E p \in Procs, u \in DOMAIN AdminRole : PermStart(p, u)
    \/ \E p \in Procs : PermFill(p)
    \/ \E p \in Procs, r \in DOMAIN RoleFixture, a \in Actors,
          name \in {None, "AUDITOR"}, ids \in PermissionChoices :
            update_role(p, r, a, name, ids)
    \/ \E p \in Procs : UpdateRoleCommit(p, TRUE)
    \/ \E p \in Procs, r \in DOMAIN RoleFixture, a \in Actors : delete_role(p, r, a)
    \/ \E p \in Procs : DeleteRoleCommit(p, TRUE)
    \/ \E p \in Procs, c \in PermissionFixture, a \in Actors : delete_permission(p, c, a)
    \/ \E p \in Procs : DeletePermissionCommit(p, TRUE)
    \/ Tick(ShortTick)

SpecRbac == Init /\ [][NextRbac]_vars

\* The calls that write an audit entry, with a sink that may fail.
NextAudit ==
    \/ \E p \in Procs, a \in Actors : create_role(p, "AUDITOR", a, NotGiven)
    \/ \E p \in Procs, sink_ok \in BOOLEAN : CreateRoleCommit(p, sink_ok)
    \/ \E p \in Procs, r \in DOMAIN roles, a \in Actors :
            update_role(p, r, a, None, {"users:read", "users:write"})
    \/ \E p \in Procs, sink_ok \in BOOLEAN : UpdateRoleCommit(p, sink_ok)
    \/ \E p \in Procs, r \in DOMAIN roles, a \in Actors : delete_role(p, r, a)
    \/ \E p \in Procs, sink_ok \in BOOLEAN : DeleteRoleCommit(p, sink_ok)
    \/ \E p \in Procs, a \in Actors : delete_permission(p, "users:write", a)
    \/ \E p \in Procs, sink_ok \in BOOLEAN : DeletePermissionCommit(p, sink_ok)
    \/ \E cur \in {OwnPassword, "longer88"}, new \in {"short77", "longer88"},
          sink_ok \in BOOLEAN :
            change_password("u1", cur, new, "s1", sink_ok)

SpecAudit == Init /\ [][NextAudit]_vars

\* Registration: customers register with any of the addresses, two at a time.
NextReg ==
    \/ \E p \in Procs, e \in RegEmails : register_customer(p, e, "longer88", "s1")
    \/ \E p \in Procs : RegisterCreate(p)

SpecReg == Init /\ [][NextReg]_vars

\* OTP checking by calls that overlap: a code is issued and verify calls for
\* the pair run two at a time, each with a code other than the issued one.
NextOtpRace ==
    \/ \E e \in OtpEmails, t \in OTPType :
            nreq < MaxVerifyRequests /\ generate_otp(e, t, FreshCode(<<e, t>>))
    \/ \E p \in Procs, e \in OtpEmails, t \in OTPType :
            VerifyRead(p, e, FreshCode(<<e, t>>), t)
    \/ \E p \in Procs : VerifyWrite(p)

SpecOtpRace == Init /\ [][NextOtpRace]_vars

----------------------------------------------------------------------------
(* Refresh-token families *)

Usable(toks, i) == toks[i].revoked = FALSE /\ toks[i].expires_at > now

Family(toks, f) == {i \in DOMAIN toks : toks[i].family_id = f}

AllRevoked(toks, f) == \A i \in Family(toks, f) : toks[i].revoked

RefreshFailed(via) ==
    /\ resp.op = "refresh"
    /\ resp.outcome = "InvalidRefreshToken"
    /\ resp.via = via

RefreshOk == resp.op = "refresh" /\ resp.outcome = "ok"

\* C1: in every reachable state each refresh-token family holds at most one
\* token that is both unrevoked and unexpired.
C1_AtMostOneUsablePerFamily ==
    \A i \in TokenIds :
        Cardinality({j \in Family(tokens, tokens[i].family_id) : Usable(tokens, j)}) <= 1

\* C2: a rotate that presents an already revoked token takes the reuse path
\* and changes no row on the way there; the reuse path ends in
\* InvalidRefreshToken, issues nothing, and leaves every token of the family
\* revoked, the active sibling included, so a rotate of the sibling that
\* starts afterwards meets a revoked token too.
C2_ReuseRevokesFamily ==
    [][\A p \in Procs :
        /\ \A raw \in RawTokens :
              (/\ RefreshStart(p, raw)
               /\ \E i \in TokenIds : tokens[i].token_hash = HashToken(raw) /\ tokens[i].revoked)
              => /\ pc'[p] = "rot_reuse"
                 /\ tokens' = tokens
        /\ (pc[p] = "rot_reuse" /\ pc'[p] # "rot_reuse")
              => /\ resp'.op = "refresh"
                 /\ resp'.outcome = "InvalidRefreshToken"
                 /\ AllRevoked(tokens', loc[p].family_id)
                 /\ Len(tokens') = Len(tokens)
                 /\ access' = access
                 /\ pc'[p] = "idle"
      ]_vars

\* C2 witness: the second rotate(T1) has just failed and T1 has a child T2.
C2_Witness ==
    /\ RefreshFailed("reuse")
    /\ \E j \in TokenIds : tokens[j].parent = resp.presented /\ tokens[j].revoked

\* C3: no interleaving of rotate calls on one token leaves two unrevoked
\* children of the same parent.
C3_NoTwoChildrenOfOneParent ==
    \A i, j \in TokenIds :
        (i # j /\ tokens[i].parent # 0 /\ tokens[i].parent = tokens[j].parent)
            => (tokens[i].revoked \/ tokens[j].revoked)

\* C4: the step that completes a successful refresh finds the presented
\* token revoked, adds exactly one row, in the presented token's family, not
\* revoked, expiring seven days from now, and answers with an access token
\* for the user who owns the presented token.
C4_RotationResult ==
    [][\A p \in Procs :
        (pc[p] = "rot_create" /\ pc'[p] # "rot_create")
            => LET old == loc[p].id
                   new == Len(tokens')
               IN /\ Len(tokens') = Len(tokens) + 1
                  /\ \A i \in DOMAIN tokens : tokens'[i] = tokens[i]
                  /\ tokens'[old].revoked
                  /\ tokens'[new].family_id = tokens[old].family_id
                  /\ tokens'[new].user_id = tokens[old].user_id
                  /\ tokens'[new].revoked = FALSE
                  /\ tokens'[new].expires_at = now + 7 * 24 * 60 * 60
                  /\ resp'.op = "refresh" /\ resp'.outcome = "ok"
                  /\ resp'.child = new
                  /\ resp'.at.sub = tokens[old].user_id
                  /\ resp'.at \in access'
      ]_vars

\* C4 witness: a refresh has just succeeded.
C4_Witness ==
    /\ RefreshOk
    /\ tokens[resp.child].parent = resp.presented
    /\ tokens[resp.presented].revoked

\* C5: a rotate whose token is not in the store, or is found unrevoked but
\* past its expiry, fails at once with InvalidRefreshToken, issues neither a
\* refresh token nor an access token, and changes no row.
C5_NotFoundOrExpired ==
    [][\A p \in Procs, raw \in RawTokens \ {NoCookie} :
        (/\ RefreshStart(p, raw)
         /\ \/ \A i \in TokenIds : tokens[i].token_hash # HashToken(raw)
            \/ \E i \in TokenIds : /\ tokens[i].token_hash = HashToken(raw)
                                   /\ tokens[i].revoked = FALSE
                                   /\ tokens[i].expires_at <= now)
        => /\ resp'.op = "refresh"
           /\ resp'.outcome = "InvalidRefreshToken"
           /\ pc'[p] = "idle"
           /\ tokens' = tokens
           /\ access' = access
      ]_vars

\* C5 witness: a rotate of an expired, unrevoked token has just failed, and
\* the token is still unrevoked.
C5_Witness ==
    /\ RefreshFailed("expired")
    /\ tokens[resp.presented].revoked = FALSE
    /\ tokens[resp.presented].expires_at <= now

\* C6: once reuse detection or logout has left every token of a family
\* revoked, the family stays all revoked and no step adds a token to it.
C6_AllRevokedTerminal ==
    [][\A f \in collapsed :
          /\ Family(tokens', f) = Family(tokens, f)
          /\ AllRevoked(tokens', f)
      ]_vars

\* Rows of the user that existed when the logout read the user's tokens.
RowsBeforeLogout ==
    {i \in TokenIds : i <= resp.seen /\ tokens[i].user_id = resp.user_id}

----------------------------------------------------------------------------
(* Blacklist and permission cache *)

\* C8: an access token that a finished logout received as Bearer is
\* rejected by the blacklist check for as long as it has not expired.
C8_BlacklistedUntilExpiry ==
    \A at \in loggedOut :
        at.exp > now => (get_cache(blacklist_key(at)) # None /\ ~TokenAccepted(at))

\* C8 witness: time has passed since the logout and the token is unexpired.
C8_Witness ==
    \E at \in loggedOut :
        /\ at.exp > now
        /\ blacklist_key(at) \in DOMAIN cache
        /\ cache[blacklist_key(at)].exp - BlacklistTTL < now

\* C9: the blacklist entry logout writes lives exactly as long as the
\* access token still has to live.
C9_TTLIsRemainingLifetime ==
    (resp.op = "logout" /\ resp.bearer)
        => cache[blacklist_key(resp.at)].exp - now = resp.at.exp - now

\* C10: the logout step that invalidates leaves no entry under the user's
\* permissions key, and an entry appears under a permissions key only by a
\* fill that caches a set computed from source.
C10_LogoutDropsPermissions ==
    [][/\ \A p \in Procs :
            (pc[p] = "out_cache" /\ pc'[p] # "out_cache")
                => user_permissions_key(loc[p].user_id) \notin DOMAIN cache'
       /\ \A u \in Users :
            (/\ user_permissions_key(u) \notin DOMAIN cache
             /\ user_permissions_key(u) \in DOMAIN cache')
                => \E p \in Procs :
                      /\ pc[p] = "perm_fill"
                      /\ loc[p].user_id = u
                      /\ pc'[p] = "idle"
      ]_vars

\* C10 witness: logout has answered, it removed an entry, and none is there.
C10_Witness ==
    /\ resp.op = "logout"
    /\ resp.dropped
    /\ user_permissions_key(resp.user_id) \notin DOMAIN cache

----------------------------------------------------------------------------
(* OTP engine *)

\* The step answers a generate, or a verify, for the pair k.
GenStep(k) ==
    /\ nreq' = nreq + 1
    /\ resp'.op = "generate" /\ resp'.email = k[1] /\ resp'.otp_type = k[2]

VerStep(k) ==
    /\ nreq' = nreq + 1
    /\ resp'.op = "verify" /\ resp'.email = k[1] /\ resp'.otp_type = k[2]

\* The cache entry under `key` is the same before and after the step.
SameEntry(key) ==
    /\ (key \in DOMAIN cache') = (key \in DOMAIN cache)
    /\ key \in DOMAIN cache => cache'[key] = cache[key]

OtpRecord(k) == get_cache_obj(otp_key(k[1], k[2]))

\* Seconds since the last successful generate of the pair (within the hour).
SinceIssue(k) == now - otpLog[k].oks[Len(otpLog[k].oks)]

NotLockedOut(k) == Len(otpLog[k].oks) < 5 /\ otpLog[k].locked_at < 0

\* C11 as stated: a generate less than 60 seconds after the previous
\* successful generate of the same (email, purpose) is answered RateLimited
\* and leaves the stored code as it was; a generate 61 seconds or more after
\* it succeeds.
C11_Cooldown ==
    [][\A k \in OtpPairs :
          GenStep(k) /\ otpLog[k].oks # <<>> =>
             /\ SinceIssue(k) < 60 =>
                    resp'.outcome = "RateLimited" /\ SameEntry(otp_key(k[1], k[2]))
             /\ SinceIssue(k) >= 61 => resp'.outcome = "ok"]_vars

\* C11 amended: while the pair is not locked out (fewer than five successful
\* generates in the trailing hour, no lock in force), a generate less than 60
\* seconds after the previous successful generate is answered RateLimited
\* and leaves the stored code as it was, and a generate 61 seconds or more
\* after it succeeds and stores the new code.
C11_CooldownUnlessLocked ==
    [][\A k \in OtpPairs :
          GenStep(k) /\ otpLog[k].oks # <<>> /\ NotLockedOut(k) =>
             /\ SinceIssue(k) < 60 =>
                    resp'.outcome = "RateLimited" /\ SameEntry(otp_key(k[1], k[2]))
             /\ SinceIssue(k) >= 61 =>
                    /\ resp'.outcome = "ok"
                    /\ OtpRecord(k)' = [otp |-> hash_otp(resp'.code), attempts |-> 0]]_vars

\* A generate 59 seconds after a successful one was refused for the cooldown,
\* with the code of that earlier generate still stored.
C11_Witness ==
    \E k \in OtpPairs :
        /\ resp.op = "generate" /\ resp.outcome = "RateLimited"
        /\ resp.email = k[1] /\ resp.otp_type = k[2]
        /\ otpLog[k].oks # <<>> /\ SinceIssue(k) = 59
        /\ OtpRecord(k) # NoObj

\* C12: a generate for a pair that has five successful generates within the
\* trailing hour is answered Locked, and from the first such refusal every
\* generate for the pair is answered Locked for 24 hours.
C12_Lockout ==
    [][\A k \in OtpPairs :
          GenStep(k) /\ (Len(otpLog[k].oks) >= 5 \/ otpLog[k].locked_at >= 0) =>
             resp'.outcome = "Locked"]_vars

\* A generate was refused as Locked one second short of 24 hours after the
\* lock began, long after the hour of the five generates had passed.
C12_Witness ==
    \E k \in OtpPairs :
        /\ resp.op = "generate" /\ resp.outcome = "Locked"
        /\ resp.email = k[1] /\ resp.otp_type = k[2]
        /\ otpLog[k].locked_at >= 0 /\ now - otpLog[k].locked_at = 24 * 60 * 60 - 1
        /\ otpLog[k].oks = <<>>

\* C13: when the three verify calls made since a code was issued all carried
\* a wrong code, the fourth verify call for the pair is answered
\* MaxAttemptsExceeded, whatever code it carries.
C13_FourthAttemptRefused ==
    [][\A k \in OtpPairs :
          /\ VerStep(k)
          /\ otpLog[k].code # None /\ otpLog[k].tried = 0 /\ otpLog[k].wrongs = 3
          => resp'.outcome = "MaxAttemptsExceeded"]_vars

\* The fourth call carried the issued code and was refused.
C13_Witness ==
    \E k \in OtpPairs :
        /\ resp.op = "verify" /\ resp.outcome = "MaxAttemptsExceeded"
        /\ resp.email = k[1] /\ resp.otp_type = k[2]
        /\ resp.code = otpLog[k].code
        /\ otpLog[k].wrongs = 3 /\ otpLog[k].tried = 1

\* C14: the first verify that carries the issued code, fewer than three wrong
\* calls having been made, succeeds and deletes the record; every later
\* verify for the pair, the same code included, is answered NotFound until a
\* new code is issued.
C14_ConsumedOnSuccess ==
    [][\A k \in OtpPairs :
          VerStep(k) /\ otpLog[k].code # None /\ otpLog[k].wrongs < 3 =>
             /\ otpLog[k].tried = 0 /\ resp'.code = otpLog[k].code =>
                    resp'.outcome = "ok" /\ otp_key(k[1], k[2]) \notin DOMAIN cache'
             /\ otpLog[k].tried >= 1 => resp'.outcome = "NotFound"]_vars

\* The issued code was presented a second time and was answered NotFound.
C14_Witness ==
    \E k \in OtpPairs :
        /\ resp.op = "verify" /\ resp.outcome = "NotFound"
        /\ resp.email = k[1] /\ resp.otp_type = k[2]
        /\ resp.code = otpLog[k].code
        /\ otpLog[k].tried = 2 /\ otpLog[k].wrongs < 3

\* C15: a successful generate stores the hash of the new code with the
\* attempt counter at 0 and a fresh TTL; a verify succeeds only with the code
\* issued last, and each of the first three wrong calls after an issue is
\* answered Invalid.
C15_GenerateReplaces ==
    [][\A k \in OtpPairs :
          /\ GenStep(k) /\ resp'.outcome = "ok" =>
                /\ OtpRecord(k)' = [otp |-> hash_otp(resp'.code), attempts |-> 0]
                /\ cache'[otp_key(k[1], k[2])].exp = now + OTP_EXPIRY_SECONDS
          /\ VerStep(k) /\ resp'.outcome = "ok" => resp'.code = otpLog[k].code
          /\ /\ VerStep(k)
             /\ otpLog[k].code # None /\ otpLog[k].tried = 0 /\ otpLog[k].wrongs < 3
             /\ resp'.code # otpLog[k].code
             => resp'.outcome = "Invalid"]_vars

\* A code was issued a second time after a wrong attempt on the first, and
\* the third wrong attempt since then was still answered Invalid.
C15_Witness ==
    \E k \in OtpPairs :
        /\ resp.op = "verify" /\ resp.outcome = "Invalid"
        /\ resp.email = k[1] /\ resp.otp_type = k[2]
        /\ Len(otpLog[k].oks) = 2
        /\ otpLog[k].wrongs = 3 /\ otpLog[k].tried = 0
        /\ OtpRecord(k) = [otp |-> hash_otp(otpLog[k].code), attempts |-> 3]

\* The cache keys of a pair: its code record, cooldown, resend record, lock.
OtpKeys(k) ==
    {otp_key(k[1], k[2]),
     rate_limit_key(k[1], cooldown_scope(k[2])),
     rate_limit_key(k[1], resend_scope(k[2])),
     rate_limit_key(k[1], lockout_scope(k[2]))}

\* C16: a generate or verify for one (email, purpose) pair leaves the stored
\* code, attempt counter, cooldown, resend record and lock of every other
\* pair as they were.
C16_PurposesIndependent ==
    [][\A k \in OtpPairs :
          GenStep(k) \/ VerStep(k) =>
             \A k2 \in OtpPairs \ {k} : \A key \in OtpKeys(k2) : SameEntry(key)]_vars

\* A code was issued for one purpose while the other purpose held a code
\* with a wrong attempt on it, its cooldown and its resend record.
C16_Witness ==
    \E k \in OtpPairs, k2 \in OtpPairs :
        /\ k # k2
        /\ resp.op = "generate" /\ resp.outcome = "ok"
        /\ resp.email = k[1] /\ resp.otp_type = k[2]
        /\ OtpRecord(k2) # NoObj /\ OtpRecord(k2).attempts = 1
        /\ OtpRecord(k2).otp # hash_otp(resp.code)
        /\ get_cache(rate_limit_key(k2[1], cooldown_scope(k2[2]))) # None
        /\ Live(cache, rate_limit_key(k2[1], resend_scope(k2[2])))

----------------------------------------------------------------------------
(* Signing in *)

\* The users that hold the address and may sign in with the password: the
\* row exists, is active, and the password is the one its hash was made of.
Holders(email, password) ==
    {u \in DOMAIN users : /\ users[u].email = email
                          /\ users[u].is_active
                          /\ password = PasswordOf(u)}

\* What the caller sees of a failure: its type, its code, its message.
Seen(r) == <<r.outcome, r.error_code, r.message>>

\* authenticate raised its failure in this response
AuthRefused(r) ==
    r.op = "login" /\ r.outcome = "AuthenticationError" /\ r.error_code = "AUTH_001"

\* C17: authenticate succeeds, as the user with that address, exactly when
\* such a user exists, is active and the password is the one that was
\* hashed; in every other case the login fails with AuthenticationError
\* (INVALID_CREDENTIALS) and no token is created.
C17_AuthenticateExactly ==
    [][\A e \in Emails, pw \in Passwords :
          login(e, pw) =>
             IF Holders(e, pw) # {}
             THEN /\ ~AuthRefused(resp')
                  /\ resp'.outcome = "ok" => resp'.user_id \in Holders(e, pw)
             ELSE /\ AuthRefused(resp')
                  /\ tokens' = tokens /\ access' = access]_vars

\* A login with a password one character off the real one was refused after
\* the same user had signed in with the real one.
C17_Witness ==
    /\ AuthRefused(resp) /\ resp.via = "wrong_password"
    /\ \E i \in TokenIds : tokens[i].user_id = "u1"
    /\ \A i \in TokenIds : tokens[i].user_id = "u1"

C19_UnverifiedCustomer ==
    [][\A e \in Emails, pw \in Passwords :
          login(e, pw) =>
             \A u \in Holders(e, pw) :
                ~users[u].is_verified =>
                   IF users[u].role = "CUSTOMER"
                   THEN /\ resp'.outcome = "AuthenticationError"
                        /\ resp'.error_code = "AUTH_002"
                        /\ tokens' = tokens /\ access' = access
                   ELSE /\ resp'.outcome = "ok" /\ resp'.user_id = u
                        /\ Len(tokens') = Len(tokens) + 1]_vars

\* The unverified customer was refused and holds no token, while the
\* unverified administrator has signed in.
C19_Witness ==
    /\ resp.op = "login" /\ resp.outcome = "AuthenticationError"
    /\ resp.error_code = "AUTH_002"
    /\ \A i \in TokenIds : tokens[i].user_id # "u3"
    /\ \E i \in TokenIds : tokens[i].user_id = "u4"

----------------------------------------------------------------------------
(* Password change *)

\* C21: change_password answers ValidationError and leaves every stored hash
\* as it was when the current password does not verify or the new one has
\* fewer than 8 characters; otherwise the caller's stored hash becomes a hash
\* of the new password and no other user's row changes.
C21_ChangePassword ==
    [][resp'.op = "change_password" =>
        LET u == resp'.user_id
            new == resp'.new_password
        IN  IF \/ ~verify_password(resp'.current_password, users[u].hashed_password)
               \/ Len(new) < 8
            THEN /\ resp'.outcome = "ValidationError"
                 /\ users' = users
            ELSE /\ verify_password(new, users'[u].hashed_password)
                 /\ \A other \in NewPasswords \cup Passwords :
                        other # new => ~verify_password(other, users'[u].hashed_password)
                 /\ \A v \in DOMAIN users : v # u => users'[v] = users[v]
      ]_vars

\* C21 witness: a password was changed, a later change with the old password
\* was refused, and the stored hash is still that of the changed password.
C21_Witness ==
    /\ resp.op = "change_password"
    /\ resp.outcome = "ValidationError"
    /\ resp.message = "Current password is incorrect"
    /\ verify_password("longer88", users[resp.user_id].hashed_password)

----------------------------------------------------------------------------
(* Roles, the permission cache and the audit sink *)

\* C22: a permission lookup answered from the cache gives the set the tables
\* give for that user: after a role's permissions were replaced, or the role
\* or one of its permissions was deleted, the set cached before is not
\* served any more.
C22_NoStaleHit ==
    (resp.op = "perm" /\ resp.outcome = "hit")
        => resp.perms = SourcePermissions(resp.user_id)

\* The step commits the change of a role call or of a permission call.
RoleCommitStep(p) ==
    /\ pc[p] \in {"role_create", "role_update", "role_delete", "permission_delete"}
    /\ pc'[p] = "idle"

\* C23: a role or permission call whose change was committed answers with
\* success whether or not the audit entry could be written, and a password
\* change that stored the new hash does too.
C23_AuditFailureIsSwallowed ==
    [][/\ \A p \in Procs : RoleCommitStep(p) => resp'.outcome = "ok"
       /\ (resp'.op = "change_password" /\ users' # users) => resp'.outcome = "ok"
      ]_vars

----------------------------------------------------------------------------
(* Registration *)

\* C24: no two users have addresses that are equal when letter case is
\* ignored, and a registration with an address that, letter case ignored, is
\* that of a user is answered 409 USER_002 and adds no user.
C24_EmailsUniqueIgnoringCase ==
    [][/\ \A u, v \in DOMAIN users' :
            u # v => lower(users'[u].email) # lower(users'[v].email)
       /\ \A p \in Procs :
            (/\ pc[p] \in {"idle", "register_create"}
             /\ resp'.op = "register"
             /\ \E u \in DOMAIN users : lower(users[u].email) = lower(resp'.email))
                => /\ resp'.outcome = "ConflictError"
                   /\ resp'.status = 409
                   /\ resp'.error_code = "USER_002"
                   /\ users' = users
      ]_vars

----------------------------------------------------------------------------
(* OTP checking under concurrency *)

\* C25: whatever way verify calls for one (email, purpose) overlap, at most
\* three submitted codes are compared with one issued code.
C25_AtMostThreeCompared ==
    \A k \in OtpPairs : otpLog[k].compared <= 3

----------------------------------------------------------------------------
(* Cache fill against a role edit followed by invalidate *)

NextFill ==
    \/ \E p \in Procs, u \in DOMAIN AdminRole : PermStart(p, u)
    \/ \E p \in Procs : PermFill(p)
    \/ \E p \in Procs, a \in Actors, ids \in PermissionChoices :
            update_role(p, CustomRoleId, a, None, ids)
    \/ \E p \in Procs : UpdateRoleCommit(p, TRUE)
    \/ \E p \in Procs, u \in DOMAIN AdminRole : invalidate(p, u)
    \/ Tick(ShortTick)

SpecFill == Init /\ [][NextFill]_vars

----------------------------------------------------------------------------
(* Role names under concurrent create and rename *)

NextRoles ==
    \/ \E p \in Procs, name \in RoleNames, a \in Actors :
            create_role(p, name, a, NotGiven)
    \/ \E p \in Procs : CreateRoleCommit(p, TRUE)
    \/ \E p \in Procs, r \in DOMAIN roles, a \in Actors, name \in RoleNames :
            update_role(p, r, a, name, NotGiven)
    \/ \E p \in Procs : UpdateRoleCommit(p, TRUE)

SpecRoles == Init /\ [][NextRoles]_vars

----------------------------------------------------------------------------
(* Email verification *)

\* Codes are issued to the customer who has not verified for both purposes
\* and to the verified one for email verification; any code is submitted to
\* the endpoint for either address, and the clock steps past the cooldown.
VerifyPairs == {<<"c@x.io", "EMAIL_VERIFICATION">>, <<"c@x.io", "PASSWORD_RESET">>,
                <<"a@x.io", "EMAIL_VERIFICATION">>}

NextVerifyEmail ==
    \/ \E k \in VerifyPairs, code \in Codes :
            nreq < MaxVerifyRequests /\ generate_otp(k[1], k[2], code)
    \/ \E e \in VerifyEmails, otp \in Codes :
            nreq < MaxVerifyRequests /\ verify_email(e, otp)
    \/ OtpTicksTaken < MaxVerifyTicks /\ OtpTick(PastCooldown)

SpecVerifyEmail == Init /\ [][NextVerifyEmail]_vars

----------------------------------------------------------------------------
(* Rotation with a failing insert *)

NextRot ==
    \/ NextTok
    \/ \E p \in Procs : RotCreateFails(p)

SpecRot == Init /\ [][NextRot]_vars

----------------------------------------------------------------------------
(* Logout against a rotation in flight *)

\* C26: once a logout and every rotation of that user's tokens that ran
\* beside it have answered, no refresh token of the user that is in a family
\* the logout saw can still be used: neither when the logout answers last,
\* nor when the rotation does.
C26_LogoutBeatsRotation ==
    /\ (resp.op = "logout" /\ \A q \in Procs : ~RotatingFor(q, resp.user_id))
          => \A i \in TokenIds :
                (tokens[i].user_id = resp.user_id /\ tokens[i].family_id <= resp.seen)
                    => ~Usable(tokens, i)
    /\ (resp.op = "refresh" /\ resp.outcome = "ok" /\ resp.after_logout)
          => ~Usable(tokens, resp.child)

\* C27: a rotation that has answered with a failure has changed nothing: the
\* token it was given is not revoked unless a child of it was issued.
C27_RotationAllOrNothing ==
    (resp.op = "refresh" /\ resp.outcome = "ServerError")
        => \/ ~tokens[resp.presented].revoked
           \/ \E i \in TokenIds : tokens[i].parent = resp.presented

\* C28: a lookup that filled the cache after an invalidation of its user had
\* completed wrote a set the source held at that invalidation or holds now,
\* never the one from before the edit the invalidation followed.
C28_FillNotOlderThanInvalidation ==
    (resp.op = "perm" /\ resp.outcome = "filled" /\ resp.invalidated)
        => LET written == get_cache_obj(user_permissions_key(resp.user_id)).perms
           IN  written = resp.floor \/ written = SourcePermissions(resp.user_id)

C30_VerifiedOnlyAfterOtp ==
    [][resp'.op = "verify_email" =>
          LET issued == get_cache_obj(otp_key(resp'.email, "EMAIL_VERIFICATION"))
              passes == /\ issued # NoObj
                        /\ issued.attempts < MAX_OTP_ATTEMPTS
                        /\ issued.otp = hash_otp(resp'.otp)
                        /\ otpLog[<<resp'.email, "EMAIL_VERIFICATION">>].code = resp'.otp
          IN  /\ \A u \in DOMAIN users :
                    (users'[u].is_verified /\ ~users[u].is_verified)
                        => passes /\ users[u].email = resp'.email /\ resp'.outcome = "ok"
              /\ resp'.outcome \in {"NotFound", "Invalid", "MaxAttemptsExceeded"}
                    => users' = users
              /\ ~passes => users' = users
      ]_vars

\* A request carrying the code issued for email verification has verified the
\* customer who had not verified, while another code stands for password reset.
C30_Witness ==
    /\ resp.op = "verify_email" /\ resp.outcome = "ok" /\ resp.email = "c@x.io"
    /\ users["u3"].is_verified
    /\ otpLog[<<"c@x.io", "PASSWORD_RESET">>].code \notin {None, resp.otp}

====
